---------------------------- MODULE Spec2Model ----------------------------
(***************************************************************************)
(* A model of src/youtube.py: the DownloaderWorker (run, _progress_hook),  *)
(* the MainWindow handlers (start_download, append_log, on_finished,       *)
(* on_failed, cleanup_thread, choose_folder) and find_ffmpeg_location.     *)
(*                                                                         *)
(* Two threads of control are modelled.  The UI thread handles one event   *)
(* at a time: a click or an edit of the user, or the head of mainQueue,    *)
(* the FIFO of queued signal deliveries (worker and QThread signals whose  *)
(* receiver lives in the UI thread).  A modal QMessageBox is an entry of   *)
(* dialogs: while one is open its nested event loop still delivers queued  *)
(* events, but the widgets of the window take no input.  Each QThread      *)
(* created by start_download is numbered 1, 2, ...; phase[j] is the state  *)
(* of thread j and jobs[j] the fields of the DownloaderWorker moved to it. *)
(*                                                                         *)
(* Texts are sequences of tokens, " " being the whitespace token.  The     *)
(* Russian message strings of the source are written transliterated, as    *)
(* the module is ASCII only.  Destruction of Qt objects is not modelled:   *)
(* deleteLater() is recorded in workerDeleted / threadDeleted.             *)
(***************************************************************************)
EXTENDS Integers, Sequences, FiniteSets, TLC

(***************************************************************************)
(* Bounds of the model.                                                    *)
(***************************************************************************)
MaxJobs == 2           \* QThread/worker pairs start_download may create (Spec)
MaxWindowReports == 1  \* progress reports of the collaborator in one run (Spec)
MaxReports == 2        \* progress reports of the collaborator in one run (SpecRun)
MaxBytes == 50         \* largest byte count of a report (SpecHook)
MaxFieldJobs == 1      \* QThread/worker pairs start_download may create (SpecFields)

(***************************************************************************)
(* Optional values (dict.get, Path | None): <<>> is None, <<v>> is v.      *)
(***************************************************************************)
None == <<>>
Some(v) == <<v>>
Get(opt, default) == IF opt = None THEN default ELSE opt[1]

Max(a, b) == IF a >= b THEN a ELSE b
Min(a, b) == IF a <= b THEN a ELSE b
Abs(x) == IF x < 0 THEN -x ELSE x
Sign(x) == IF x < 0 THEN -1 ELSE 1

(***************************************************************************)
(* str.strip(): leading and trailing whitespace tokens removed.            *)
(***************************************************************************)
RECURSIVE LStrip(_)
LStrip(s) == IF s # <<>> /\ Head(s) = " " THEN LStrip(Tail(s)) ELSE s

RECURSIVE RStrip(_)
RStrip(s) ==
    IF s # <<>> /\ s[Len(s)] = " " THEN RStrip(SubSeq(s, 1, Len(s) - 1)) ELSE s

Strip(s) == RStrip(LStrip(s))

(***************************************************************************)
(* int(downloaded / total * 100) as Python computes it: a true division    *)
(* of two ints rounded to the nearest IEEE-754 double, a multiplication by *)
(* 100.0 rounded again, and a truncation toward zero.  A positive double   *)
(* is a pair <<limbs, e>> of value 1.f * 2^e, the 52 fraction bits f being *)
(* Limbs limbs of LimbBits bits each, most significant first.              *)
(***************************************************************************)
LimbBits == 13
Limbs == 4
LimbBase == 2 ^ LimbBits

\* n/m * 2^e scaled so that m <= n < 2m.
RECURSIVE Normalize(_, _, _)
Normalize(n, m, e) ==
    IF n < m THEN Normalize(2 * n, m, e - 1)
    ELSE IF n >= 2 * m THEN Normalize(n, 2 * m, e + 1)
    ELSE <<n, m, e>>

\* k quotient limbs of r/m (r < m) by long division, and the remainder left.
RECURSIVE DivLimbs(_, _, _)
DivLimbs(r, m, k) ==
    IF k = 0 THEN <<<<>>, r>>
    ELSE LET rest == DivLimbs((r * LimbBase) % m, m, k - 1)
         IN  <<<<(r * LimbBase) \div m>> \o rest[1], rest[2]>>

\* limbs + 1, from limb i upward; not all limbs are LimbBase - 1.
RECURSIVE IncLimbs(_, _)
IncLimbs(limbs, i) ==
    IF i = 0 THEN limbs
    ELSE IF limbs[i] + 1 < LimbBase THEN [limbs EXCEPT ![i] = @ + 1]
    ELSE IncLimbs([limbs EXCEPT ![i] = 0], i - 1)

\* Round to nearest, ties to even.
RoundNearestEven(limbs, e, roundBit, sticky) ==
    IF roundBit = 1 /\ (sticky \/ limbs[Limbs] % 2 = 1)
    THEN IF \A i \in 1..Limbs : limbs[i] = LimbBase - 1
         THEN <<[i \in 1..Limbs |-> 0], e + 1>>
         ELSE <<IncLimbs(limbs, Limbs), e>>
    ELSE <<limbs, e>>

\* d / t for ints d, t > 0.
FloatDiv(d, t) ==
    LET nm == Normalize(d, t, 0)
        dl == DivLimbs(nm[1] - nm[2], nm[2], Limbs)
        rb == (2 * dl[2]) \div nm[2]
    IN  RoundNearestEven(dl[1], nm[3], rb, (2 * dl[2]) % nm[2] # 0)

\* The exact product 1.f * c: the integer part, then the fraction limbs.
RECURSIVE MulLimbs(_, _, _, _)
MulLimbs(limbs, c, i, carry) ==
    IF i = 0 THEN <<c + carry>>
    ELSE MulLimbs(limbs, c, i - 1, (limbs[i] * c + carry) \div LimbBase)
         \o <<(limbs[i] * c + carry) % LimbBase>>

\* q * c for a double q and an int c, 1 <= c < LimbBase.
FloatMulSmall(q, c) ==
    LET p == MulLimbs(q[1], c, Limbs, 0)
        k == CHOOSE s \in 0..LimbBits : 2 ^ s <= p[1] /\ p[1] < 2 ^ (s + 1)
        shifted == [i \in 1..Limbs |->
                      ((p[i] % (2 ^ k)) * LimbBase + p[i + 1]) \div (2 ^ k)]
        low == p[Limbs + 1] % (2 ^ k)
    IN  IF k = 0 THEN <<Tail(p), q[2]>>
        ELSE RoundNearestEven(shifted, q[2] + k, low \div (2 ^ (k - 1)),
                              low % (2 ^ (k - 1)) # 0)

\* int(p) for a double p, 0 <= p < 2^(2 * LimbBits + 1).
FloatTrunc(p) ==
    IF p[2] < 0 THEN 0
    ELSE ((LimbBase + p[1][1]) * LimbBase + p[1][2])
         \div (2 ^ (2 * LimbBits - p[2]))

PercentFactor == 100

\* pct = int(downloaded / total * 100), total # 0.
IntOfRatioTimes100(downloaded, total) ==
    IF downloaded = 0 THEN 0
    ELSE Sign(downloaded) * Sign(total)
         * FloatTrunc(FloatMulSmall(FloatDiv(Abs(downloaded), Abs(total)),
                                    PercentFactor))

(***************************************************************************)
(* Signal emissions of the worker: <<signal, argument>>.                   *)
(***************************************************************************)
PostprocessingPercent == 95
CompletePercent == 100

MsgEmptyUrl == <<"Vstavte ssylku na video.">>
MsgStart == <<"Nachinayu zagruzku...">>
MsgDone == <<"Zagruzka zavershena.">>
MsgPostprocessing == <<"Fail skachan, vypolnyayu postobrabotku...">>
MsgFfmpeg(location) == <<"ffmpeg: ", location>>
\* The message without the text of the exception.
MsgError_NoText(exc) == <<"Oshibka zagruzki: ">>

MsgError(exc) == <<"Oshibka zagruzki: ", exc>>
MsgReady(title) == <<"Gotovo: ", title>>
DefaultTitle == "video"

Emission(signal, arg) == [signal |-> signal, arg |-> arg]

\* Python truthiness of an optional int: None and 0 are false.
Truthy(opt) == opt # None /\ opt[1] # 0

\* max(0, min(100, pct))
Clamp(pct) == Max(0, Min(100, pct))

\* The hook reporting 0 when the total is unknown, and treating every other
\* status as 'finished'.
progress_hook_UnknownAsZero(data) ==
    IF data.status = Some("downloading")
    THEN LET total_ == IF Truthy(data.total_bytes) THEN data.total_bytes
                       ELSE data.total_bytes_estimate
             downloaded_ == Get(data.downloaded_bytes, 0)
         IN  IF Truthy(total_)
             THEN <<Emission("progress_changed",
                             Clamp(IntOfRatioTimes100(downloaded_, total_[1])))>>
             ELSE <<Emission("progress_changed", 0)>>
    ELSE <<Emission("progress_changed", PostprocessingPercent),
           Emission("log_message", MsgPostprocessing)>>

\* The hook emitting the log message before the percentage.
progress_hook_LogFirst(data) ==
    IF data.status = Some("finished")
    THEN <<Emission("log_message", MsgPostprocessing),
           Emission("progress_changed", PostprocessingPercent)>>
    ELSE <<>>

\* DownloaderWorker._progress_hook: the signals it emits for a report.
progress_hook(data) ==
    IF data.status = Some("downloading")
    THEN LET total_ == IF Truthy(data.total_bytes) THEN data.total_bytes
                       ELSE data.total_bytes_estimate
             downloaded_ == Get(data.downloaded_bytes, 0)
         IN  IF Truthy(total_)
             THEN <<Emission("progress_changed",
                             Clamp(IntOfRatioTimes100(downloaded_, total_[1])))>>
             ELSE <<>>
    ELSE IF data.status = Some("finished")
    THEN <<Emission("progress_changed", PostprocessingPercent),
           Emission("log_message", MsgPostprocessing)>>
    ELSE <<>>


(***************************************************************************)
(* find_ffmpeg_location and the dependency probe.  An environment tells    *)
(* whether the program is a packaged binary (sys.frozen, sys._MEIPASS),    *)
(* which directories hold ffmpeg.exe and ffprobe.exe, and whether          *)
(* "ffmpeg" resolves on the search path.                                   *)
(***************************************************************************)
Candidates(e) ==
    (IF e.frozen
     THEN <<"exe_dir", "exe_dir/bin">>
          \o (IF e.meipass THEN <<"meipass", "meipass/bin">> ELSE <<>>)
     ELSE <<>>)
    \o <<"cwd", "cwd/bin">>

\* The loop accepting a directory that holds either executable.
RECURSIVE FirstWithBoth_Either(_, _)
FirstWithBoth_Either(candidates, e) ==
    IF candidates = <<>> THEN None
    ELSE IF Head(candidates) \in e.ffmpeg \/ Head(candidates) \in e.ffprobe
    THEN Some(Head(candidates))
    ELSE FirstWithBoth_Either(Tail(candidates), e)

RECURSIVE FirstWithBoth(_, _)
FirstWithBoth(candidates, e) ==
    IF candidates = <<>> THEN None
    ELSE IF Head(candidates) \in e.ffmpeg /\ Head(candidates) \in e.ffprobe
    THEN Some(Head(candidates))
    ELSE FirstWithBoth(Tail(candidates), e)

\* Both outcomes of the search-path probe return None.
find_ffmpeg_location(e) == FirstWithBoth(Candidates(e), e)

\* MainWindow._is_ffmpeg_available: the attribute ffmpeg.probe exists and
\* `<location>/ffmpeg.exe -version`, or `ffmpeg -version`, runs and exits
\* with 0.
is_ffmpeg_available(location, e) ==
    /\ e.probe
    /\ IF location # None THEN location[1] \in e.ffmpeg /\ e.runs
       ELSE e.onPath

(***************************************************************************)
(* Inputs of the model.                                                    *)
(***************************************************************************)
JobIds == 1..MaxJobs

UrlTexts == {<<>>, <<" ">>, <<" ", "u">>}
InitialFolder == <<"downloads">>
Folders == {<<>>, <<"videos">>}
Modes == {"video", "audio"}

ToolEnvs ==
    {[frozen |-> FALSE, meipass |-> FALSE, ffmpeg |-> s, ffprobe |-> s,
      runs |-> TRUE, onPath |-> FALSE, probe |-> TRUE] : s \in {{}, {"cwd"}}}

\* The directories of an installation: sys._MEIPASS names one only in a
\* packaged binary that unpacks its resources.
ToolDirs(frozen, meipass) ==
    {"exe_dir", "exe_dir/bin", "cwd", "cwd/bin"}
    \cup (IF meipass THEN {"meipass", "meipass/bin"} ELSE {})

\* An installation: packaged or not, each directory holding ffmpeg.exe,
\* ffprobe.exe, both or neither, the located ffmpeg.exe running or not,
\* ffmpeg on the search path or not, the ffmpeg module having probe or not.
ToolEnv(frozen, meipass, f, p, runs, onPath, probe) ==
    [frozen |-> frozen, meipass |-> meipass, ffmpeg |-> f, ffprobe |-> p,
     runs |-> runs, onPath |-> onPath, probe |-> probe]

Report(status, total, estimate, downloaded) ==
    [status |-> status, total_bytes |-> total,
     total_bytes_estimate |-> estimate, downloaded_bytes |-> downloaded]

\* Reports of the collaborator in Spec.
Reports ==
    {Report(Some("downloading"), Some(2), None, Some(1))}

\* Reports of the collaborator in SpecRun.
RunReports ==
    {Report(Some("downloading"), total, estimate, downloaded) :
        total \in {None, Some(0), Some(2)},
        estimate \in {None, Some(4)},
        downloaded \in {None, Some(-1), Some(1), Some(3)}}
    \cup {Report(status, None, None, None) :
            status \in {None, Some("finished"), Some("error")}}

\* Reports of the collaborator in SpecHook.
HookReports ==
    {Report(Some("downloading"), total, estimate, downloaded) :
        total \in {None} \cup {Some(t) : t \in 0..MaxBytes},
        estimate \in {None, Some(0), Some(MaxBytes)},
        downloaded \in {None} \cup {Some(d) : d \in -1..(MaxBytes + 1)}}
    \cup {Report(status, None, None, Some(1)) :
            status \in {None, Some("finished"), Some("error")}}

Infos == {[title |-> Some("Song")], [title |-> None]}
Errors == {"network unreachable"}

NoWorker == [url |-> <<>>, output_dir |-> <<>>, mode |-> "", ffmpeg_location |-> None]

VARIABLES
    thread,           \* MainWindow.thread: 0 is None, j is QThread j
    worker,           \* MainWindow.worker: 0 is None, j is worker j
    ffmpeg_location,  \* MainWindow.ffmpeg_location
    url_input,        \* text of the URL field
    path_input,       \* text of the path field
    mode_box,         \* currentData() of the mode selector
    progress_bar,     \* value of the progress bar
    log_box,          \* lines of the log view
    download_button,  \* whether the start button is enabled
    dialogs,          \* open modal message boxes, innermost last
    mainQueue,        \* queued slot invocations of the UI thread
    created,          \* QThread/worker pairs created so far
    phase,            \* per thread: none, starting, run, loop, finishing, done
    quitReq,          \* per thread: quit() was called
    jobs,             \* per worker: url, output_dir, mode, ffmpeg_location
    trace,            \* per worker: what its run did and emitted, in order
    hookCalls,        \* per worker: reports received in its run
    workerDeleted,    \* per worker: deleteLater() calls
    threadDeleted,    \* per thread: deleteLater() calls
    env,              \* the tool environment
    dirs,             \* directories that exist
    hookData,         \* hook specification: the report under test
    hookOut,          \* hook specification: None, or Some(emissions)
    window            \* main: none, init (inside MainWindow.__init__), shown

vars == <<thread, worker, ffmpeg_location, url_input, path_input, mode_box,
          progress_bar, log_box, download_button, dialogs, mainQueue, created,
          phase, quitReq, jobs, trace, hookCalls, workerDeleted, threadDeleted,
          env, dirs, hookData, hookOut, window>>

uiFields == <<url_input, path_input, mode_box>>
uiDisplay == <<progress_bar, log_box, download_button>>
refs == <<thread, worker>>
threads == <<created, phase, quitReq, jobs, trace, hookCalls>>
deleted == <<workerDeleted, threadDeleted>>
hookVars == <<hookData, hookOut>>

\* QThread.isRunning(): from start() until the thread has finished.
isRunning(j) == phase[j] \in {"starting", "run", "loop", "finishing"}

\* The worker's run has returned.
Returned(j) == phase[j] \in {"loop", "finishing", "done"}

(***************************************************************************)
(* MainWindow.__init__: the state after construction.  The warning of      *)
(* _check_dependencies is modal and closed before the constructor returns. *)
(***************************************************************************)
Constructed ==
    /\ env \in ToolEnvs
    /\ thread = 0
    /\ worker = 0
    /\ ffmpeg_location = find_ffmpeg_location(env)
    /\ url_input = <<>>
    /\ path_input = InitialFolder
    /\ mode_box = "video"
    /\ progress_bar = 0
    /\ log_box = <<>>
    /\ download_button = TRUE
    /\ dialogs = <<>>
    /\ mainQueue = <<>>
    /\ created = 0
    /\ phase = [j \in JobIds |-> "none"]
    /\ quitReq = [j \in JobIds |-> FALSE]
    /\ jobs = [j \in JobIds |-> NoWorker]
    /\ trace = [j \in JobIds |-> <<>>]
    /\ hookCalls = [j \in JobIds |-> 0]
    /\ workerDeleted = [j \in JobIds |-> 0]
    /\ threadDeleted = [j \in JobIds |-> 0]
    /\ dirs = {}
    /\ hookOut = None
    /\ window = "shown"

Init == Constructed /\ hookData = None


(***************************************************************************)
(* The connections made by start_download: the slots a signal of worker j  *)
(* invokes, in connection order.  Every receiver (the progress bar, the    *)
(* window, the QThread object) lives in the UI thread and the worker emits *)
(* from its own thread, so every invocation is queued.                     *)
(***************************************************************************)
Invocation(slot, j, arg) == [slot |-> slot, job |-> j, arg |-> arg]

Invocations(j, e) ==
    CASE e.signal = "progress_changed" ->
            <<Invocation("setValue", j, Some(e.arg))>>
      [] e.signal = "log_message" ->
            <<Invocation("append_log", j, Some(e.arg))>>
      [] e.signal = "finished" ->
            <<Invocation("on_finished", j, Some(e.arg)),
              Invocation("quit", j, None)>>
      [] e.signal = "failed" ->
            <<Invocation("on_failed", j, Some(e.arg)),
              Invocation("quit", j, None)>>
      [] OTHER -> <<>>

RECURSIVE Queued(_, _, _)
Queued(j, effects, i) ==
    IF i > Len(effects) THEN <<>>
    ELSE Invocations(j, effects[i]) \o Queued(j, effects, i + 1)

Post(queue, j, effects) == queue \o Queued(j, effects, 1)

\* Worker j does `effects` in order: signals are queued, all are traced.
Does(j, effects) ==
    /\ mainQueue' = Post(mainQueue, j, effects)
    /\ trace' = [trace EXCEPT ![j] = @ \o effects]

\* The fields of a worker nothing refers to any more and whose thread has
\* finished are forgotten.
Forget(f, blank, ph, w) ==
    [j \in JobIds |-> IF ph[j] = "done" /\ w # j THEN blank ELSE f[j]]

(***************************************************************************)
(* DownloaderWorker                                                        *)
(***************************************************************************)
\* __init__
DownloaderWorker(url, output_dir, mode, location) ==
    [url |-> Strip(url), output_dir |-> output_dir, mode |-> mode,
     ffmpeg_location |-> location]

\* The check written against None, which a str never is.
UrlIsEmpty_IsNone(w) == FALSE

\* `not self.url`
UrlIsEmpty(w) == w.url = <<>>

\* ydl_opts built from what the fields show when run executes, not from
\* what the worker was given.
YdlOpts_ReadsFields(w) ==
    [outtmpl |-> <<Strip(path_input), "%(title)s.%(ext)s">>,
     noprogress |-> TRUE,
     quiet |-> TRUE,
     ffmpeg_location |-> w.ffmpeg_location,
     format |-> IF mode_box = "audio" THEN "bestaudio/best"
                ELSE "bestvideo[avc1,mp4]+bestaudio[mp4a,m4a]/best[avc1,mp4]/best[mp4]/best",
     postprocessors |-> IF mode_box = "audio"
                        THEN <<[key |-> "FFmpegExtractAudio",
                                preferredcodec |-> "mp3",
                                preferredquality |-> "192"]>>
                        ELSE <<>>,
     merge_output_format |-> IF mode_box = "audio" THEN None ELSE Some("mp4")]

\* ydl_opts as run builds it.
YdlOpts(w) ==
    [outtmpl |-> <<w.output_dir, "%(title)s.%(ext)s">>,
     noprogress |-> TRUE,
     quiet |-> TRUE,
     ffmpeg_location |-> w.ffmpeg_location,
     format |-> IF w.mode = "audio" THEN "bestaudio/best"
                ELSE "bestvideo[avc1,mp4]+bestaudio[mp4a,m4a]/best[avc1,mp4]/best[mp4]/best",
     postprocessors |-> IF w.mode = "audio"
                        THEN <<[key |-> "FFmpegExtractAudio",
                                preferredcodec |-> "mp3",
                                preferredquality |-> "192"]>>
                        ELSE <<>>,
     merge_output_format |-> IF w.mode = "audio" THEN None ELSE Some("mp4")]

\* run, the url being empty: failed is emitted and run returns.
run_empty_url(j) ==
    /\ phase[j] = "starting"
    /\ UrlIsEmpty(jobs[j])
    /\ Does(j, <<Emission("failed", MsgEmptyUrl)>>)
    /\ phase' = [phase EXCEPT ![j] = "loop"]
    /\ UNCHANGED <<refs, ffmpeg_location, uiFields, uiDisplay, dialogs, created,
                   quitReq, jobs, hookCalls, deleted, env, dirs, hookVars, window>>

\* run, output_dir.mkdir raising (the directory cannot be created): the call
\* is outside the try block, so the exception leaves run.
run_mkdir_raises(j) ==
    /\ phase[j] = "starting"
    /\ ~UrlIsEmpty(jobs[j])
    /\ jobs[j].output_dir \notin dirs
    /\ Does(j, <<Emission("mkdir raised", jobs[j].output_dir)>>)
    /\ phase' = [phase EXCEPT ![j] = "loop"]
    /\ UNCHANGED <<refs, ffmpeg_location, uiFields, uiDisplay, dialogs, created,
                   quitReq, jobs, hookCalls, deleted, env, dirs, hookVars, window>>

\* run calling the collaborator without creating the directory.
run_extract_info_NoMkdir(j) ==
    /\ phase[j] = "starting"
    /\ ~UrlIsEmpty(jobs[j])
    /\ Does(j, <<Emission("log_message", MsgStart),
                 Emission("extract_info", YdlOpts(jobs[j]))>>)
    /\ phase' = [phase EXCEPT ![j] = "run"]
    /\ UNCHANGED <<refs, ffmpeg_location, uiFields, uiDisplay, dialogs, created,
                   quitReq, jobs, hookCalls, deleted, env, dirs, hookVars, window>>

\* run up to the call of ydl.extract_info.
run_extract_info(j) ==
    /\ phase[j] = "starting"
    /\ ~UrlIsEmpty(jobs[j])
    /\ dirs' = dirs \cup {jobs[j].output_dir}
    /\ Does(j, <<Emission("mkdir", jobs[j].output_dir)>>
               \o (IF jobs[j].ffmpeg_location # None
                   THEN <<Emission("log_message",
                                   MsgFfmpeg(jobs[j].ffmpeg_location[1]))>>
                   ELSE <<>>)
               \o <<Emission("log_message", MsgStart),
                    Emission("extract_info", YdlOpts(jobs[j]))>>)
    /\ phase' = [phase EXCEPT ![j] = "run"]
    /\ UNCHANGED <<refs, ffmpeg_location, uiFields, uiDisplay, dialogs, created,
                   quitReq, jobs, hookCalls, deleted, env, hookVars, window>>

\* The collaborator calls the progress hook with a report.
report_progress(j, report) ==
    /\ phase[j] = "run"
    /\ hookCalls' = [hookCalls EXCEPT ![j] = @ + 1]
    /\ Does(j, progress_hook(report))
    /\ UNCHANGED <<refs, ffmpeg_location, uiFields, uiDisplay, dialogs, created,
                   phase, quitReq, jobs, deleted, env, dirs, hookVars, window>>

\* The try block emitting finished before the last percentage and log.
run_succeeds_OutcomeFirst(j, info) ==
    /\ phase[j] = "run"
    /\ Does(j, <<Emission("finished", Get(info.title, DefaultTitle)),
                 Emission("progress_changed", CompletePercent),
                 Emission("log_message", MsgDone)>>)
    /\ phase' = [phase EXCEPT ![j] = "loop"]
    /\ UNCHANGED <<refs, ffmpeg_location, uiFields, uiDisplay, dialogs, created,
                   quitReq, jobs, hookCalls, deleted, env, dirs, hookVars, window>>

\* extract_info returns info: the rest of the try block.
run_succeeds(j, info) ==
    /\ phase[j] = "run"
    /\ Does(j, <<Emission("progress_changed", CompletePercent),
                 Emission("log_message", MsgDone),
                 Emission("finished", Get(info.title, DefaultTitle))>>)
    /\ phase' = [phase EXCEPT ![j] = "loop"]
    /\ UNCHANGED <<refs, ffmpeg_location, uiFields, uiDisplay, dialogs, created,
                   quitReq, jobs, hookCalls, deleted, env, dirs, hookVars, window>>

\* extract_info raises exc: the except clause.
run_fails(j, exc) ==
    /\ phase[j] = "run"
    /\ Does(j, <<Emission("failed", MsgError(exc))>>)
    /\ phase' = [phase EXCEPT ![j] = "loop"]
    /\ UNCHANGED <<refs, ffmpeg_location, uiFields, uiDisplay, dialogs, created,
                   quitReq, jobs, hookCalls, deleted, env, dirs, hookVars, window>>

(***************************************************************************)
(* QThread: after run has returned the thread is in its event loop; once   *)
(* quit() has been called the loop exits, the thread emits finished        *)
(* (queued to cleanup_thread) and only then stops running.                 *)
(***************************************************************************)
thread_finished(j) ==
    /\ phase[j] = "loop"
    /\ quitReq[j]
    /\ phase' = [phase EXCEPT ![j] = "finishing"]
    /\ mainQueue' = Append(mainQueue, Invocation("cleanup_thread", j, None))
    /\ UNCHANGED <<refs, ffmpeg_location, uiFields, uiDisplay, dialogs, created,
                   quitReq, jobs, trace, hookCalls, deleted, env, dirs, hookVars, window>>

thread_stops(j) ==
    /\ phase[j] = "finishing"
    /\ phase' = [phase EXCEPT ![j] = "done"]
    /\ jobs' = Forget(jobs, NoWorker, phase', worker)
    /\ trace' = Forget(trace, <<>>, phase', worker)
    /\ hookCalls' = Forget(hookCalls, 0, phase', worker)
    /\ UNCHANGED <<refs, ffmpeg_location, uiFields, uiDisplay, dialogs, mainQueue,
                   created, quitReq, deleted, env, dirs, hookVars, window>>


(***************************************************************************)
(* MainWindow: the handlers of the UI thread.                              *)
(***************************************************************************)
Dialog(kind, title, text) == [kind |-> kind, title |-> title, text |-> text]

RejectionNotice ==
    Dialog("information", "Zagruzka", <<"Dozhdites zaversheniya tekushchei zagruzki.">>)

\* The window takes input: no modal message box is open.
AcceptsInput == dialogs = <<>>

\* The guard testing whether the worker is still inside run, not whether the
\* thread is running.
Busy_WhileInRun == thread # 0 /\ phase[thread] \in {"starting", "run"}

\* `self.thread and self.thread.isRunning()`
Busy == thread # 0 /\ isRunning(thread)

\* start_download, the rejection: the notice and nothing else.
start_download_rejected ==
    /\ AcceptsInput
    /\ download_button
    /\ Busy
    /\ dialogs' = Append(dialogs, RejectionNotice)
    /\ UNCHANGED <<refs, ffmpeg_location, uiFields, uiDisplay, mainQueue, threads,
                   deleted, env, dirs, hookVars, window>>

\* start_download, a new Job: the display is reset, a QThread and a worker
\* are created and connected, and the thread is started.
start_download_accepted ==
    /\ AcceptsInput
    /\ download_button
    /\ ~Busy
    /\ LET new == created + 1
           url_ == Strip(url_input)
           output_dir_ == Strip(path_input)
           mode_ == mode_box
       IN  /\ created' = new
           /\ thread' = new
           /\ worker' = new
           /\ phase' = [phase EXCEPT ![new] = "starting"]
           /\ jobs' = Forget([jobs EXCEPT ![new] =
                                 DownloaderWorker(url_, output_dir_, mode_,
                                                  ffmpeg_location)],
                             NoWorker, phase', new)
           /\ trace' = Forget(trace, <<>>, phase', new)
           /\ hookCalls' = Forget(hookCalls, 0, phase', new)
    /\ progress_bar' = 0
    /\ log_box' = <<>>
    /\ download_button' = FALSE
    /\ UNCHANGED <<ffmpeg_location, uiFields, dialogs, mainQueue, quitReq,
                   deleted, env, dirs, hookVars, window>>

start_download == start_download_rejected \/ start_download_accepted

\* The queued invocation the UI thread handles next.
Next_invocation == Head(mainQueue)

Handles(slot) == mainQueue # <<>> /\ Next_invocation.slot = slot

\* QProgressBar.setValue, the slot of progress_changed.
setValue ==
    /\ Handles("setValue")
    /\ mainQueue' = Tail(mainQueue)
    /\ progress_bar' = Next_invocation.arg[1]
    /\ UNCHANGED <<refs, ffmpeg_location, uiFields, log_box, download_button,
                   dialogs, threads, deleted, env, dirs, hookVars, window>>

\* append_log replacing the text of the log view (setPlainText).
append_log_Replace ==
    /\ Handles("append_log")
    /\ mainQueue' = Tail(mainQueue)
    /\ log_box' = <<Next_invocation.arg[1]>>
    /\ UNCHANGED <<refs, ffmpeg_location, uiFields, progress_bar, download_button,
                   dialogs, threads, deleted, env, dirs, hookVars, window>>

\* append_log, the slot of log_message.
append_log ==
    /\ Handles("append_log")
    /\ mainQueue' = Tail(mainQueue)
    /\ log_box' = Append(log_box, Next_invocation.arg[1])
    /\ UNCHANGED <<refs, ffmpeg_location, uiFields, progress_bar, download_button,
                   dialogs, threads, deleted, env, dirs, hookVars, window>>

on_finished ==
    /\ Handles("on_finished")
    /\ mainQueue' = Tail(mainQueue)
    /\ log_box' = Append(log_box, MsgReady(Next_invocation.arg[1]))
    /\ download_button' = TRUE
    /\ dialogs' = Append(dialogs, Dialog("information", "Uspeh", MsgDone))
    /\ UNCHANGED <<refs, ffmpeg_location, uiFields, progress_bar, threads,
                   deleted, env, dirs, hookVars, window>>

on_failed ==
    /\ Handles("on_failed")
    /\ mainQueue' = Tail(mainQueue)
    /\ log_box' = Append(log_box, Next_invocation.arg[1])
    /\ download_button' = TRUE
    /\ dialogs' = Append(dialogs,
                         Dialog("critical", "Oshibka", Next_invocation.arg[1]))
    /\ UNCHANGED <<refs, ffmpeg_location, uiFields, progress_bar, threads,
                   deleted, env, dirs, hookVars, window>>

\* QThread.quit, the second slot of finished and of failed.
quit ==
    /\ Handles("quit")
    /\ mainQueue' = Tail(mainQueue)
    /\ quitReq' = [quitReq EXCEPT ![Next_invocation.job] = TRUE]
    /\ UNCHANGED <<refs, ffmpeg_location, uiFields, uiDisplay, dialogs, created,
                   phase, jobs, trace, hookCalls, deleted, env, dirs, hookVars, window>>

\* cleanup_thread, the slot of QThread.finished: it releases whatever
\* self.worker and self.thread refer to when it runs.
cleanup_thread ==
    /\ Handles("cleanup_thread")
    /\ mainQueue' = Tail(mainQueue)
    /\ workerDeleted' = IF worker # 0
                        THEN [workerDeleted EXCEPT ![worker] = @ + 1]
                        ELSE workerDeleted
    /\ worker' = 0
    /\ threadDeleted' = IF thread # 0
                        THEN [threadDeleted EXCEPT ![thread] = @ + 1]
                        ELSE threadDeleted
    /\ thread' = 0
    /\ jobs' = Forget(jobs, NoWorker, phase, 0)
    /\ trace' = Forget(trace, <<>>, phase, 0)
    /\ hookCalls' = Forget(hookCalls, 0, phase, 0)
    /\ UNCHANGED <<ffmpeg_location, uiFields, uiDisplay, dialogs, created, phase,
                   quitReq, env, dirs, hookVars, window>>

\* The user closes the innermost message box.
close_dialog ==
    /\ dialogs # <<>>
    /\ dialogs' = SubSeq(dialogs, 1, Len(dialogs) - 1)
    /\ UNCHANGED <<refs, ffmpeg_location, uiFields, uiDisplay, mainQueue, threads,
                   deleted, env, dirs, hookVars, window>>

\* The user edits the URL field.
edit_url(text) ==
    /\ AcceptsInput
    /\ text # url_input
    /\ url_input' = text
    /\ UNCHANGED <<refs, ffmpeg_location, path_input, mode_box, uiDisplay, dialogs,
                   mainQueue, threads, deleted, env, dirs, hookVars, window>>

\* choose_folder: an empty folder is a cancelled file dialog.
choose_folder(folder) ==
    /\ AcceptsInput
    /\ path_input' = IF folder # <<>> THEN folder ELSE path_input
    /\ UNCHANGED <<refs, ffmpeg_location, url_input, mode_box, uiDisplay, dialogs,
                   mainQueue, threads, deleted, env, dirs, hookVars, window>>

\* The user selects a mode.
select_mode(mode) ==
    /\ AcceptsInput
    /\ mode # mode_box
    /\ mode_box' = mode
    /\ UNCHANGED <<refs, ffmpeg_location, url_input, path_input, uiDisplay, dialogs,
                   mainQueue, threads, deleted, env, dirs, hookVars, window>>

\* The tool is installed or removed while the program runs.
tools_change(e) ==
    /\ e # env
    /\ e.frozen = env.frozen
    /\ e.meipass = env.meipass
    /\ env' = e
    /\ UNCHANGED <<refs, ffmpeg_location, uiFields, uiDisplay, dialogs, mainQueue,
                   threads, deleted, dirs, hookVars, window>>

(***************************************************************************)
(* Spec: the window and its Jobs.  The user starts Jobs, edits the URL     *)
(* and closes message boxes; the collaborator reports, returns or raises.  *)
(***************************************************************************)
WindowInfos == {[title |-> Some("Song")]}

Next ==
    \/ start_download_rejected
    \/ created < MaxJobs /\ start_download_accepted
    \/ setValue
    \/ append_log
    \/ on_finished
    \/ on_failed
    \/ quit
    \/ cleanup_thread
    \/ close_dialog
    \/ \E text \in UrlTexts : edit_url(text)
    \/ \E e \in ToolEnvs : tools_change(e)
    \/ \E j \in JobIds : run_empty_url(j)
    \/ \E j \in JobIds : run_mkdir_raises(j)
    \/ \E j \in JobIds : run_extract_info(j)
    \/ \E j \in JobIds, report \in Reports :
          hookCalls[j] < MaxWindowReports /\ report_progress(j, report)
    \/ \E j \in JobIds, info \in WindowInfos : run_succeeds(j, info)
    \/ \E j \in JobIds, exc \in Errors : run_fails(j, exc)
    \/ \E j \in JobIds : thread_finished(j)
    \/ \E j \in JobIds : thread_stops(j)

Spec == Init /\ [][Next]_vars

(***************************************************************************)
(* SpecFields: the window with the user also picking folders and modes,    *)
(* before a Job and while it runs.                                         *)
(***************************************************************************)
NextFields ==
    \/ start_download_rejected
    \/ created < MaxFieldJobs /\ start_download_accepted
    \/ setValue
    \/ append_log
    \/ on_finished
    \/ on_failed
    \/ quit
    \/ cleanup_thread
    \/ close_dialog
    \/ \E text \in UrlTexts : edit_url(text)
    \/ \E folder \in Folders : choose_folder(folder)
    \/ \E mode \in Modes : select_mode(mode)
    \/ \E e \in ToolEnvs : tools_change(e)
    \/ \E j \in JobIds : run_empty_url(j)
    \/ \E j \in JobIds : run_mkdir_raises(j)
    \/ \E j \in JobIds : run_extract_info(j)
    \/ \E j \in JobIds, report \in Reports :
          hookCalls[j] < MaxWindowReports /\ report_progress(j, report)
    \/ \E j \in JobIds, info \in WindowInfos : run_succeeds(j, info)
    \/ \E j \in JobIds, exc \in Errors : run_fails(j, exc)
    \/ \E j \in JobIds : thread_finished(j)
    \/ \E j \in JobIds : thread_stops(j)

SpecFields == Init /\ [][NextFields]_vars

(***************************************************************************)
(* SpecRun: one run of DownloaderWorker.run, for every Job start_download  *)
(* can hand to a worker and every behaviour of the collaborator.  The      *)
(* initial states are those start_download leaves: the first QThread       *)
(* started, its worker not yet running.                                    *)
(***************************************************************************)
InitRun ==
    /\ env \in ToolEnvs
    /\ ffmpeg_location = find_ffmpeg_location(env)
    /\ url_input \in UrlTexts
    /\ path_input \in {InitialFolder} \cup (Folders \ {<<>>})
    /\ mode_box \in Modes
    /\ thread = 1
    /\ worker = 1
    /\ created = 1
    /\ phase = [j \in JobIds |-> IF j = 1 THEN "starting" ELSE "none"]
    /\ jobs = [j \in JobIds |->
                 IF j = 1
                 THEN DownloaderWorker(Strip(url_input), Strip(path_input),
                                       mode_box, ffmpeg_location)
                 ELSE NoWorker]
    /\ progress_bar = 0
    /\ log_box = <<>>
    /\ download_button = FALSE
    /\ dialogs = <<>>
    /\ mainQueue = <<>>
    /\ quitReq = [j \in JobIds |-> FALSE]
    /\ trace = [j \in JobIds |-> <<>>]
    /\ hookCalls = [j \in JobIds |-> 0]
    /\ workerDeleted = [j \in JobIds |-> 0]
    /\ threadDeleted = [j \in JobIds |-> 0]
    /\ dirs \in {{}, {Strip(path_input)}}
    /\ hookData = None
    /\ hookOut = None
    /\ window = "shown"

NextRun ==
    \/ \E j \in JobIds : run_empty_url(j)
    \/ \E j \in JobIds : run_mkdir_raises(j)
    \/ \E j \in JobIds : run_extract_info(j)
    \/ \E j \in JobIds, report \in RunReports :
          hookCalls[j] < MaxReports /\ report_progress(j, report)
    \/ \E j \in JobIds, info \in Infos : run_succeeds(j, info)
    \/ \E j \in JobIds, exc \in Errors : run_fails(j, exc)

SpecRun == InitRun /\ [][NextRun]_vars

(***************************************************************************)
(* SpecEvents: one run and the UI thread handling what it emits, from the  *)
(* start of the thread to cleanup_thread, the user closing the notices.    *)
(***************************************************************************)
NextEvents ==
    \/ NextRun
    \/ setValue
    \/ append_log
    \/ on_finished
    \/ on_failed
    \/ quit
    \/ cleanup_thread
    \/ close_dialog
    \/ \E j \in JobIds : thread_finished(j)
    \/ \E j \in JobIds : thread_stops(j)

SpecEvents == InitRun /\ [][NextEvents]_vars

(***************************************************************************)
(* SpecTools: main constructs the window in every installation: __init__   *)
(* resolves the tool location and checks the dependency, the user closes   *)
(* the warning if there is one, and the window is shown.                   *)
(***************************************************************************)
DependencyWarning ==
    Dialog("warning", "Zavisimosti", <<"Ne naiden ffmpeg/ffprobe.">>)

\* MainWindow.__init__ up to the message box of _check_dependencies.
MainWindow_init ==
    /\ window = "none"
    /\ window' = "init"
    /\ ffmpeg_location' = find_ffmpeg_location(env)
    /\ dialogs' = IF is_ffmpeg_available(ffmpeg_location', env) THEN dialogs
                  ELSE Append(dialogs, DependencyWarning)
    /\ UNCHANGED <<refs, uiFields, uiDisplay, mainQueue, threads, deleted, env,
                   dirs, hookVars>>

\* window.show(), once __init__ has returned.
show ==
    /\ window = "init"
    /\ dialogs = <<>>
    /\ window' = "shown"
    /\ UNCHANGED <<refs, ffmpeg_location, uiFields, uiDisplay, dialogs, mainQueue,
                   threads, deleted, env, dirs, hookVars>>

InitTools ==
    /\ window = "none"
    /\ \E frozen \in BOOLEAN, meipass \in BOOLEAN :
          /\ meipass => frozen
          /\ \E f \in SUBSET ToolDirs(frozen, meipass),
                p \in SUBSET ToolDirs(frozen, meipass),
                runs \in BOOLEAN, onPath \in BOOLEAN, probe \in BOOLEAN :
                env = ToolEnv(frozen, meipass, f, p, runs, onPath, probe)
    /\ ffmpeg_location = None
    /\ thread = 0
    /\ worker = 0
    /\ url_input = <<>>
    /\ path_input = InitialFolder
    /\ mode_box = "video"
    /\ progress_bar = 0
    /\ log_box = <<>>
    /\ download_button = TRUE
    /\ dialogs = <<>>
    /\ mainQueue = <<>>
    /\ created = 0
    /\ phase = [j \in JobIds |-> "none"]
    /\ quitReq = [j \in JobIds |-> FALSE]
    /\ jobs = [j \in JobIds |-> NoWorker]
    /\ trace = [j \in JobIds |-> <<>>]
    /\ hookCalls = [j \in JobIds |-> 0]
    /\ workerDeleted = [j \in JobIds |-> 0]
    /\ threadDeleted = [j \in JobIds |-> 0]
    /\ dirs = {}
    /\ hookData = None
    /\ hookOut = None

NextTools ==
    \/ MainWindow_init
    \/ close_dialog
    \/ show

SpecTools == InitTools /\ [][NextTools]_vars

(***************************************************************************)
(* SpecHook: one call of _progress_hook, for every report.                 *)
(***************************************************************************)
InitHook == Constructed /\ hookData \in {Some(r) : r \in HookReports}

hook_call ==
    /\ hookData # None
    /\ hookOut = None
    /\ hookOut' = Some(progress_hook(hookData[1]))
    /\ UNCHANGED <<refs, ffmpeg_location, uiFields, uiDisplay, dialogs, mainQueue,
                   threads, deleted, env, dirs, hookData, window>>

SpecHook == InitHook /\ [][hook_call]_vars


(***************************************************************************)
(* The claims.                                                             *)
(***************************************************************************)
Outcomes(tr) ==
    Cardinality({i \in DOMAIN tr : tr[i].signal \in {"finished", "failed"}})

Percentages(tr) == {i \in DOMAIN tr : tr[i].signal = "progress_changed"}

\* The cleanup_thread invocation queued by thread j's finished signal has
\* been handled.
CleanupRan(j) ==
    /\ phase[j] \in {"finishing", "done"}
    /\ \A i \in DOMAIN mainQueue :
          ~(mainQueue[i].slot = "cleanup_thread" /\ mainQueue[i].job = j)

\* C1: every run of DownloaderWorker.run emits exactly one of finished /
\* failed: never more than one, and exactly one once run has returned.
C1_ExactlyOneOutcome ==
    \A j \in JobIds :
        /\ Outcomes(trace[j]) <= 1
        /\ phase[j] \in {"loop", "finishing"} => Outcomes(trace[j]) = 1

\* C2: at most one worker thread executes a download at any time, and
\* MainWindow.thread / MainWindow.worker refer to it while it does.
C2_AtMostOneJobInFlight ==
    LET inFlight == {j \in JobIds : phase[j] \in {"starting", "run"}}
    IN  /\ Cardinality(inFlight) <= 1
        /\ \A j \in inFlight : thread = j /\ worker = j

\* C3: a call of start_download while the thread MainWindow.thread refers
\* to is running shows the rejection notice and leaves the thread, the
\* worker, the progress bar, the log, the start button and every thread and
\* worker untouched; no thread or worker is created.
C3_RejectionLeavesJobUntouched ==
    [][(start_download /\ thread # 0 /\ isRunning(thread))
         => /\ dialogs' = Append(dialogs, RejectionNotice)
            /\ UNCHANGED <<thread, worker, progress_bar, log_box,
                           download_button, created, phase, quitReq, jobs,
                           trace, hookCalls, mainQueue, workerDeleted,
                           threadDeleted>>]_vars

\* A rejection notice is open while the thread it protected is running.
C3_Witness ==
    /\ dialogs # <<>>
    /\ dialogs[Len(dialogs)] = RejectionNotice
    /\ thread # 0
    /\ isRunning(thread)

\* C4: when start_download accepts Job N+1, cleanup_thread for Job N has
\* already run.
C4_CleanupBeforeNextJob ==
    [][(created' = created + 1 /\ created >= 1) => CleanupRan(created)]_vars

\* C5: once the cleanup_thread caused by Job j has run, the worker and the
\* thread of Job j have been released exactly once, and no worker or thread
\* is ever released twice.
C5_TornDownOncePerJob ==
    \A j \in JobIds :
        /\ workerDeleted[j] <= 1
        /\ threadDeleted[j] <= 1
        /\ CleanupRan(j) => workerDeleted[j] = 1 /\ threadDeleted[j] = 1

\* Nothing is left to happen without the user: no queued invocation, no
\* worker about to run or running, no thread about to finish.
Quiescent ==
    /\ mainQueue = <<>>
    /\ \A j \in JobIds :
          /\ phase[j] \notin {"starting", "run", "finishing"}
          /\ ~(phase[j] = "loop" /\ quitReq[j])

\* C6: every started Job returns the window to a state in which a new Job
\* can be started: when nothing is left to happen, the start button is
\* enabled and no thread is running.
C6_ReturnsToIdle ==
    Quiescent => download_button /\ \A j \in JobIds : ~isRunning(j)

\* C7: a run whose url is empty emits failed with the fixed message and
\* nothing else (no progress, no log message, no mkdir, no call of the
\* collaborator), and the step leaves the directories as they are.
C7_EmptyUrlFails ==
    /\ [](\A j \in JobIds :
            (phase[j] \in {"loop", "finishing"} /\ jobs[j].url = <<>>)
                => trace[j] = <<Emission("failed", MsgEmptyUrl)>>)
    /\ [][\A j \in JobIds :
            (phase[j] = "starting" /\ jobs[j].url = <<>>
                /\ phase'[j] # "starting")
                => /\ phase'[j] = "loop"
                   /\ dirs' = dirs
                   /\ mainQueue' = mainQueue
                          \o <<Invocation("on_failed", j, Some(MsgEmptyUrl)),
                               Invocation("quit", j, None)>>]_vars

\* A run given a whitespace-only url has returned.
C7_Witness ==
    /\ Strip(url_input) = <<>>
    /\ url_input # <<>>
    /\ phase[1] = "loop"
    /\ jobs[1].url = <<>>
    /\ trace[1] # <<>>

\* C8: the percentages a run emits are non-decreasing.
C8_MonotonicPercentages ==
    \A j \in JobIds :
        \A i, k \in Percentages(trace[j]) :
            i < k => trace[j][i].arg <= trace[j][k].arg

\* The total the hook divides by.
HookTotal(data) ==
    IF Truthy(data.total_bytes) THEN data.total_bytes[1]
    ELSE Get(data.total_bytes_estimate, 0)

\* C9: for a 'downloading' report with total > 0 the hook emits exactly
\* clamp(floor(downloaded / total * 100), 0, 100), and whatever it emits
\* lies in 0..100.
C9_ClampedFloor ==
    hookOut # None =>
        /\ \A i \in DOMAIN hookOut[1] :
              hookOut[1][i].signal = "progress_changed"
                  => hookOut[1][i].arg \in 0..100
        /\ (hookData[1].status = Some("downloading")
                /\ HookTotal(hookData[1]) > 0)
              => hookOut[1] =
                    <<Emission("progress_changed",
                               Max(0, Min(100,
                                   (Get(hookData[1].downloaded_bytes, 0) * 100)
                                       \div HookTotal(hookData[1]))))>>

\* C10: every accepted start_download hands the worker the tool location
\* as find_ffmpeg_location resolves it at that moment, and warns when a tool
\* that was found at startup is missing by then.
C10_FreshToolCheckPerRun ==
    [][created' = created + 1
         => /\ jobs'[created'].ffmpeg_location = find_ffmpeg_location(env)
            /\ (ffmpeg_location # None
                  /\ ~is_ffmpeg_available(find_ffmpeg_location(env), env))
                  => dialogs' # dialogs]_vars


IsLog(e) == e.signal = "log_message"

\* The arguments of the log_message emissions of a trace, in order.
Logs(tr) ==
    LET logs == SelectSeq(tr, IsLog)
    IN  [i \in 1..Len(logs) |-> logs[i].arg]

\* The invocations worker j has queued that the UI thread has not handled.
Pending(j) ==
    LET OfWorker(inv) == inv.job = j /\ inv.slot # "cleanup_thread"
    IN  SelectSeq(mainQueue, OfWorker)

IsSuffix(s, t) ==
    /\ Len(s) <= Len(t)
    /\ s = SubSeq(t, Len(t) - Len(s) + 1, Len(t))

Delivered(j, slot) ==
    /\ \E i \in DOMAIN trace[j] : trace[j][i].signal \in {"finished", "failed"}
    /\ \A i \in DOMAIN Pending(j) : Pending(j)[i].slot # slot

\* C11: in the emissions of a run every 95 is followed at once by the
\* postprocessing log message; finished is the last emission and comes
\* right after 100 and the completion log message; the UI thread handles
\* the queued slots in the order of emission, so that when on_finished has
\* run the bar shows 100, the log holds the run's log messages in order
\* followed by the line of on_finished, and no setValue or append_log of
\* the run is left.
C11_OrderedEvents ==
    \A j \in JobIds :
        LET tr == trace[j]
            n == Len(tr)
        IN  /\ \A i \in DOMAIN tr :
                  tr[i] = Emission("progress_changed", PostprocessingPercent)
                      => /\ i < n
                         /\ tr[i + 1] = Emission("log_message", MsgPostprocessing)
            /\ \A i \in DOMAIN tr :
                  tr[i].signal = "finished"
                      => /\ i = n
                         /\ n >= 3
                         /\ tr[n - 1] = Emission("log_message", MsgDone)
                         /\ tr[n - 2] = Emission("progress_changed", CompletePercent)
                         /\ tr[n].arg \in {"Song", DefaultTitle}
            /\ tr # <<>> => IsSuffix(Pending(j), Queued(j, tr, 1))
            /\ (tr # <<>> /\ tr[n].signal = "finished"
                    /\ Delivered(j, "on_finished"))
                  => /\ progress_bar = CompletePercent
                     /\ log_box = Append(Logs(tr), MsgReady(tr[n].arg))
                     /\ \A i \in DOMAIN Pending(j) : Pending(j)[i].slot = "quit"

\* A run that reported a finished transfer has succeeded and on_finished
\* has handled its outcome.
C11_Witness ==
    /\ trace[1] # <<>>
    /\ trace[1][Len(trace[1])].signal = "finished"
    /\ \E i \in DOMAIN trace[1] :
          trace[1][i] = Emission("progress_changed", PostprocessingPercent)
    /\ Delivered(1, "on_finished")
    /\ Len(log_box) >= 4


\* The collaborator was called in the run of this trace and the run failed.
CollaboratorFailed(tr) ==
    /\ tr # <<>>
    /\ tr[Len(tr)].signal = "failed"
    /\ \E i \in DOMAIN tr : tr[i].signal = "extract_info"

Calls(tr) == Cardinality({i \in DOMAIN tr : tr[i].signal = "extract_info"})

\* C12 as stated: the collaborator is called at most once per run, and a
\* run in which it raised ends with failed carrying the error text, having
\* emitted no percentage 100, no completion log message and no finished.
C12_NoCompletionOnFailure ==
    \A j \in JobIds :
        LET tr == trace[j]
        IN  /\ Calls(tr) <= 1
            /\ CollaboratorFailed(tr)
                  => /\ Len(tr[Len(tr)].arg) = 2
                     /\ tr[Len(tr)].arg[2] \in Errors
                     /\ \A i \in DOMAIN tr :
                           /\ tr[i] # Emission("progress_changed", CompletePercent)
                           /\ tr[i] # Emission("log_message", MsgDone)
                           /\ tr[i].signal # "finished"

\* C12 amended: the collaborator is called at most once per run; a run in
\* which it raised ends with failed carrying the error text, that failed is
\* its only outcome, no completion log message and no finished is emitted,
\* and the step that emits failed emits nothing else (a percentage 100 in
\* such a run comes from a progress report, not from the end of the run).
C12_FailureEndsRun ==
    /\ [](\A j \in JobIds :
            LET tr == trace[j]
            IN  /\ Calls(tr) <= 1
                /\ CollaboratorFailed(tr)
                      => /\ Len(tr[Len(tr)].arg) = 2
                         /\ tr[Len(tr)].arg[2] \in Errors
                         /\ Outcomes(tr) = 1
                         /\ \A i \in DOMAIN tr :
                               /\ tr[i] # Emission("log_message", MsgDone)
                               /\ tr[i].signal # "finished")
    /\ [][\A j \in JobIds :
            (Len(trace'[j]) > Len(trace[j])
                /\ trace'[j][Len(trace'[j])].signal = "failed")
                => trace'[j] = Append(trace[j], trace'[j][Len(trace'[j])])]_vars

\* The collaborator reported a complete transfer (percentage 100) and then
\* raised.
C12_Witness ==
    /\ CollaboratorFailed(trace[1])
    /\ phase[1] = "loop"
    /\ \E i \in DOMAIN trace[1] :
          trace[1][i] = Emission("progress_changed", CompletePercent)


\* The first directory of `order` holding both executables, if any.
FirstQualifying(order, e) ==
    LET q == {i \in DOMAIN order :
                 order[i] \in e.ffmpeg /\ order[i] \in e.ffprobe}
    IN  IF q = {} THEN None
        ELSE Some(order[CHOOSE i \in q : \A k \in q : i <= k])

\* The search order as the claim lists it.
FixedOrder ==
    <<"exe_dir", "exe_dir/bin", "meipass", "meipass/bin", "cwd", "cwd/bin">>

\* C13 as stated: __init__ stores the first directory of the fixed order
\* holding both executables, None if there is none, and warns exactly when
\* there is none and ffmpeg is not on the search path either.
C13_FirstInFixedOrder ==
    [][window = "none"
         => /\ ffmpeg_location' = FirstQualifying(FixedOrder, env)
            /\ dialogs' # dialogs
                  <=> (FirstQualifying(FixedOrder, env) = None /\ ~env.onPath)]_vars

\* The candidates of an installation: the directories beside the binary
\* only when packaged, the bundled resources only when packaged with them.
PackagedOrder(e) ==
    (IF e.frozen THEN <<"exe_dir", "exe_dir/bin">> ELSE <<>>)
    \o (IF e.frozen /\ e.meipass THEN <<"meipass", "meipass/bin">> ELSE <<>>)
    \o <<"cwd", "cwd/bin">>

\* C13 amended: the stored location is the first candidate directory of the
\* installation holding both executables, None if there is none; __init__
\* warns exactly when the ffmpeg module has no probe, or the ffmpeg.exe of
\* the stored location does not run, or there is no location and ffmpeg is
\* not on the search path.
C13_FirstCandidateWithBoth ==
    /\ [](window # "none"
            => ffmpeg_location = FirstQualifying(PackagedOrder(env), env))
    /\ [][window = "none"
            => LET found == FirstQualifying(PackagedOrder(env), env)
                   warn == \/ ~env.probe
                           \/ found # None /\ ~env.runs
                           \/ found = None /\ ~env.onPath
               IN  /\ warn => dialogs' = <<DependencyWarning>>
                   /\ ~warn => dialogs' = <<>>]_vars

\* __init__ skipped a directory holding only ffmpeg.exe, took the next one,
\* and warns because its ffmpeg.exe does not run.
C13_Witness ==
    /\ window = "init"
    /\ ffmpeg_location = Some("cwd/bin")
    /\ "cwd" \in env.ffmpeg
    /\ "cwd" \notin env.ffprobe
    /\ env.probe
    /\ dialogs = <<DependencyWarning>>


\* C14: in a run with a non-empty url, whatever the worker emits and the
\* call of the collaborator come after output_dir.mkdir has succeeded, and
\* the directory exists from then on; mkdir raises only for a directory
\* that does not exist yet.
C14_DirectoryBeforeDownload ==
    \A j \in JobIds :
        LET tr == trace[j]
        IN  /\ \A i \in DOMAIN tr :
                  tr[i].signal \in {"extract_info", "progress_changed",
                                    "log_message", "finished"}
                      => /\ jobs[j].url # <<>>
                         /\ jobs[j].output_dir \in dirs
                         /\ \E k \in 1..(i - 1) :
                               tr[k] = Emission("mkdir", jobs[j].output_dir)
            /\ \A i \in DOMAIN tr :
                  tr[i].signal = "mkdir raised" => jobs[j].output_dir \notin dirs

\* The collaborator was called and reported progress in a directory the
\* run found or created.
C14_Witness ==
    /\ phase[1] = "run"
    /\ jobs[1].output_dir \in dirs
    /\ \E i \in DOMAIN trace[1] : trace[1][i].signal = "progress_changed"


\* The last percentage of a trace, 0 (the reset of start_download) if none.
LastPercent(tr) ==
    LET ps == Percentages(tr)
    IN  IF ps = {} THEN 0
        ELSE tr[CHOOSE i \in ps : \A k \in ps : k <= i].arg

\* Nothing the worker emitted for the display is left to handle.
DisplayUpToDate(j) ==
    /\ trace[j] # <<>>
    /\ \A i \in DOMAIN Pending(j) :
          Pending(j)[i].slot \notin {"setValue", "append_log"}

\* C15 as stated: every percentage the worker emits comes with a log line:
\* the emission after it is a log message.
C15_EveryPercentageLogged ==
    \A j \in JobIds :
        \A i \in Percentages(trace[j]) :
            /\ i < Len(trace[j])
            /\ trace[j][i + 1].signal = "log_message"

\* C15 amended: handling a percentage sets the bar to it and leaves the
\* log alone, handling a log message appends it as one line and leaves the
\* bar alone; once all are handled the bar shows the last percentage
\* emitted and the log holds exactly the log messages emitted, in order,
\* followed by the line of the outcome if that was handled too.
C15_PercentagesAndLogsSurfaced ==
    /\ [](\A j \in JobIds :
            DisplayUpToDate(j)
                => /\ progress_bar = LastPercent(trace[j])
                   /\ Len(log_box) \in {Len(Logs(trace[j])),
                                        Len(Logs(trace[j])) + 1}
                   /\ SubSeq(log_box, 1, Len(Logs(trace[j]))) = Logs(trace[j]))
    /\ [][(Handles("setValue") /\ mainQueue' = Tail(mainQueue))
            => /\ progress_bar' = Next_invocation.arg[1]
               /\ log_box' = log_box]_vars
    /\ [][(Handles("append_log") /\ mainQueue' = Tail(mainQueue))
            => /\ log_box' = Append(log_box, Next_invocation.arg[1])
               /\ progress_bar' = progress_bar]_vars

\* A computed percentage was shown by the bar and only the start message
\* is in the log.
C15_Witness ==
    /\ DisplayUpToDate(1)
    /\ phase[1] = "run"
    /\ progress_bar = 50
    /\ log_box = <<MsgStart>>


\* C16: the worker of an accepted start holds the url, directory and mode
\* the fields show at that moment and the window's tool location; while
\* its run has not returned nothing changes them, whatever the user edits;
\* and the options handed to the collaborator are built from them.
C16_ParametersFixedAtStart ==
    /\ [][created' = created + 1
            => jobs'[created'] = [url |-> Strip(url_input),
                                  output_dir |-> Strip(path_input),
                                  mode |-> mode_box,
                                  ffmpeg_location |-> ffmpeg_location]]_vars
    /\ [][\A j \in JobIds :
            phase[j] \in {"starting", "run"} => jobs'[j] = jobs[j]]_vars
    /\ [](\A j \in JobIds :
            \A i \in DOMAIN trace[j] :
                trace[j][i].signal = "extract_info"
                    => /\ trace[j][i].arg.outtmpl[1] = jobs[j].output_dir
                       /\ trace[j][i].arg.ffmpeg_location = jobs[j].ffmpeg_location
                       /\ (trace[j][i].arg.format = "bestaudio/best")
                              <=> (jobs[j].mode = "audio"))

\* The collaborator is downloading while all three fields show something
\* else than the Job was started with.
C16_Witness ==
    /\ thread # 0
    /\ phase[thread] = "run"
    /\ Strip(url_input) # jobs[thread].url
    /\ Strip(path_input) # jobs[thread].output_dir
    /\ mode_box # jobs[thread].mode


\* Neither total_bytes nor total_bytes_estimate gives a size: each is
\* absent or zero.
TotalUnknown(data) ==
    /\ data.total_bytes \in {None, Some(0)}
    /\ data.total_bytes_estimate \in {None, Some(0)}

\* C17: a 'downloading' report whose total size is unknown or zero makes
\* the hook emit nothing, and so does a report whose status is neither
\* 'downloading' nor 'finished'.
C17_NothingWithoutTotal ==
    hookOut # None =>
        /\ (hookData[1].status = Some("downloading") /\ TotalUnknown(hookData[1]))
              => hookOut[1] = <<>>
        /\ hookData[1].status \notin {Some("downloading"), Some("finished")}
              => hookOut[1] = <<>>

\* The hook returned for a report of 7 bytes downloaded of a total of 0.
C17_Witness ==
    /\ hookOut = Some(<<>>)
    /\ hookData[1].status = Some("downloading")
    /\ hookData[1].total_bytes = Some(0)
    /\ hookData[1].total_bytes_estimate = None
    /\ hookData[1].downloaded_bytes = Some(7)


DisplaySlots == {"setValue", "append_log", "on_finished", "on_failed"}

\* C18: when start_download accepts a Job no progress, log or outcome
\* invocation is left in the queue of the UI thread, and every such
\* invocation the UI thread handles belongs to the Job started last.
C18_NoLeakIntoNextJob ==
    /\ [][created' = created + 1
            => \A i \in DOMAIN mainQueue : mainQueue[i].slot \notin DisplaySlots]_vars
    /\ [][(mainQueue # <<>> /\ Next_invocation.slot \in DisplaySlots
             /\ mainQueue' = Tail(mainQueue))
            => Next_invocation.job = created]_vars

\* The second Job shows its own progress and log after the reset.
C18_Witness ==
    /\ created = 2
    /\ thread = 2
    /\ phase[2] = "run"
    /\ progress_bar = 50
    /\ log_box # <<>>

=============================================================================
